---------------------------- MODULE Spec2Model ----------------------------
(***************************************************************************)
(* Model of the zenith_engine stream ingestor                              *)
(* (connectivity/websocket_client.py) and of the shared State it writes    *)
(* (state.py), of the rate limiter and REST client                         *)
(* (connectivity/rate_limiter.py, connectivity/rest_client.py), of the     *)
(* pure strategy and statistics functions, and of the engine's three       *)
(* tasks (main.py).                                                        *)
(*                                                                         *)
(* Wire frames are records.  A frame's "kind" is the shape json.loads      *)
(* gives the handler:                                                      *)
(*   "undecodable"  text that json.loads rejects                           *)
(*   "info"         {"event": "info", ...}                                 *)
(*   "subscribed"   {"event": "subscribed", "chanId": chan, "channel": name}*)
(*   "event"        any other dict frame                                   *)
(*   "hb"           [chan, "hb"]                                           *)
(*   "nested"       [chan, [row, row, ...]]   (payload[0] is a list)       *)
(*   "flat"         [chan, [x, x, ...]]       (payload is rows[1]; may be  *)
(*                                             the empty list)            *)
(*   "tag"          [chan, tag, row]          (payload is the string tag)  *)
(* Rows are sequences of integers: a book entry is                         *)
(* <<rate, period, count, amount>>, a trade is                             *)
(* <<id, mts, amount, rate, period>>.  Rates and amounts are fixed-point   *)
(* integers (Decimal in the code).                                         *)
(*                                                                         *)
(* Time is counted in seconds; the clock is kept relative:                 *)
(* last_update_age stands for time.time() - state.last_update_time.        *)
(***************************************************************************)
EXTENDS Integers, Sequences, FiniteSets, TLC

VARIABLES
    pc,               \* position of connect(): "connecting", "streaming", "backoff"
    ws,               \* the websocket of the current attempt: "none", "open", "closing"
    connected,        \* WebSocketClient.connected
    chan_map,         \* WebSocketClient.chan_map
    bids,             \* State.bids
    asks,             \* State.asks
    trades,           \* State.trades
    last_update_age,  \* time.time() - State.last_update_time, saturating
    backoff_timer,    \* seconds left of connect()'s asyncio.sleep(5)
    hb_alive,         \* the current connection's _heartbeat task is running
    hb_timer,         \* seconds left of that task's asyncio.sleep(5)
    last,             \* history: the step taken last and the frame it handled
    pre,              \* history: bids and asks before the step taken last
    log,              \* history: every trade appended to State.trades, in order
    acked,            \* history: channel ids acknowledged on the current connection
    prior,            \* history: channel ids that were bound on an earlier connection
    quiet,            \* history: seconds the current connection has had no frame, saturating
    tokens,           \* RateLimiter.tokens, in units of 1/window_seconds token
    refill_age,       \* time.time() - RateLimiter.last_refill, saturating
    holder,           \* the caller that holds RateLimiter.lock, 0 when it is free
    waiters,          \* the callers waiting for RateLimiter.lock, first come first
    acq,              \* each caller's position in acquire(): "idle", "queued", "sleeping"
    sleep_left,       \* ticks left of acquire()'s asyncio.sleep(wait_time)
    rl,               \* history: counts and clocks of the grants of the rate limiter
    call,             \* the pure function applied last, its arguments and its result
    running,          \* TradingEngine.running
    task,             \* the position of each periodic task of the engine
    perp_funding_rate,   \* State.perp_funding_rate
    is_aggressive_mode,  \* State.is_aggressive_mode
    taker_volumes,    \* SpikePredictor.taker_volumes
    available_balance,\* State.available_balance
    lent_balance,     \* State.lent_balance
    pending_orders,   \* State.pending_orders
    cycle,            \* history: the latest iteration of the rebalance loop
    samples,          \* history: every sample given to SpikePredictor.add_trade
    rest              \* each caller's position in _post(), and the requests sent

ingest_vars == <<pc, ws, connected, chan_map, bids, asks, trades, last_update_age,
                 backoff_timer, hb_alive, hb_timer, last, pre, log, acked, prior, quiet>>

limiter_vars == <<tokens, refill_age, holder, waiters, acq, sleep_left, rl>>

engine_vars == <<running, task, perp_funding_rate, is_aggressive_mode,
                 taker_volumes, cycle, samples>>

account_vars == <<available_balance, lent_balance, pending_orders>>

others == <<limiter_vars, call, engine_vars, account_vars, rest>>

beside_limiter == <<ingest_vars, call, engine_vars, account_vars, rest>>

beside_engine == <<ingest_vars, limiter_vars, call, account_vars, rest>>

beside_pure == <<ingest_vars, limiter_vars, engine_vars, account_vars, rest>>

vars == <<ingest_vars, limiter_vars, call, engine_vars, account_vars, rest>>

----------------------------------------------------------------------------
(* Program constants *)

TRADE_CAP == 1000
RECONNECT_DELAY == 5
HB_INTERVAL == 5
WS_TIMEOUT_SECONDS == 30

(* Bounds of the model *)

MaxSnapshot == 2      \* rows in a snapshot frame
MaxFeed == 1003       \* trades the exchange emits in the trade-history runs
MaxProtoTrades == 2   \* trades appended in the connection-protocol runs

----------------------------------------------------------------------------
(* Dictionaries (Python dict) as functions with a finite domain *)

EmptyDict == [k \in {} |-> 0]

Put(d, k, v) == [x \in (DOMAIN d) \cup {k} |-> IF x = k THEN v ELSE d[x]]

Del(d, k) == [x \in (DOMAIN d) \ {k} |-> d[x]]

(* Mutant of Get: an unknown key defaults to the book channel *)
Get_DefaultBook(d, k) == IF k \in DOMAIN d THEN d[k] ELSE "book"

(* dict.get: None for a key the dict does not hold *)
Get(d, k) == IF k \in DOMAIN d THEN d[k] ELSE "None"

(* Decimal(str(x)) of a JSON number: the exact decimal value of x *)
DecimalOf(x) == x

----------------------------------------------------------------------------
(* State.update_book: both sides are replaced together *)
update_book(new_bids, new_asks) ==
    [raised |-> FALSE, bids |-> new_bids, asks |-> new_asks]

(* The snapshot loop of _handle_book over rows[1..n], starting from empty   *)
(* local dicts; a row that does not unpack into four fields raises.        *)
RECURSIVE SnapshotFold(_, _)
SnapshotFold(rows, n) ==
    IF n = 0 THEN [raised |-> FALSE, bids |-> EmptyDict, asks |-> EmptyDict]
    ELSE LET acc == SnapshotFold(rows, n - 1)
             entry == rows[n]
         IN  IF acc.raised \/ Len(entry) # 4 THEN [acc EXCEPT !.raised = TRUE]
             ELSE LET rate_dec == DecimalOf(entry[1])
                      amount_dec == DecimalOf(entry[4])
                  IN  IF amount_dec > 0
                      THEN [acc EXCEPT !.bids = Put(acc.bids, rate_dec, amount_dec)]
                      ELSE [acc EXCEPT !.asks = Put(acc.asks, rate_dec, -amount_dec)]

(* Mutant of BookSnapshot: the snapshot is merged into the book as a delta *)
Merge(d, e) == [x \in (DOMAIN d) \cup (DOMAIN e) |-> IF x \in DOMAIN e THEN e[x] ELSE d[x]]

BookSnapshot_AsDelta(b, a, rows) ==
    LET acc == SnapshotFold(rows, Len(rows))
    IN  IF acc.raised THEN [raised |-> TRUE, bids |-> b, asks |-> a]
        ELSE update_book(Merge(b, acc.bids), Merge(a, acc.asks))

BookSnapshot(b, a, rows) ==
    LET acc == SnapshotFold(rows, Len(rows))
    IN  IF acc.raised THEN [raised |-> TRUE, bids |-> b, asks |-> a]
        ELSE update_book(acc.bids, acc.asks)

(* Mutant of BookUpdate: a zero-count update deletes from the bid side only *)
BookUpdate_DeleteBidOnly(b, a, content) ==
    IF Len(content) # 4 THEN [raised |-> TRUE, bids |-> b, asks |-> a]
    ELSE LET rate_dec == DecimalOf(content[1])
             count == content[3]
             amount_dec == DecimalOf(content[4])
         IN  IF count = 0
             THEN [raised |-> FALSE, bids |-> Del(b, rate_dec), asks |-> a]
             ELSE IF amount_dec > 0
                  THEN [raised |-> FALSE, bids |-> Put(b, rate_dec, amount_dec), asks |-> a]
                  ELSE [raised |-> FALSE, bids |-> b, asks |-> Put(a, rate_dec, -amount_dec)]

(* Mutant of BookUpdate: an ask is stored with the sign of its frame *)
BookUpdate_SignedAsk(b, a, content) ==
    IF Len(content) # 4 THEN [raised |-> TRUE, bids |-> b, asks |-> a]
    ELSE LET rate_dec == DecimalOf(content[1])
             count == content[3]
             amount_dec == DecimalOf(content[4])
         IN  IF count = 0
             THEN [raised |-> FALSE, bids |-> Del(b, rate_dec), asks |-> Del(a, rate_dec)]
             ELSE IF amount_dec > 0
                  THEN [raised |-> FALSE, bids |-> Put(b, rate_dec, amount_dec), asks |-> a]
                  ELSE [raised |-> FALSE, bids |-> b, asks |-> Put(a, rate_dec, amount_dec)]

(* The update branch of _handle_book *)
BookUpdate(b, a, content) ==
    IF Len(content) # 4 THEN [raised |-> TRUE, bids |-> b, asks |-> a]
    ELSE LET rate_dec == DecimalOf(content[1])
             count == content[3]
             amount_dec == DecimalOf(content[4])
         IN  IF count = 0
             THEN [raised |-> FALSE, bids |-> Del(b, rate_dec), asks |-> Del(a, rate_dec)]
             ELSE IF amount_dec > 0
                  THEN [raised |-> FALSE, bids |-> Put(b, rate_dec, amount_dec), asks |-> a]
                  ELSE [raised |-> FALSE, bids |-> b, asks |-> Put(a, rate_dec, -amount_dec)]

(* _handle_book(data[1]) on book b, a.  A string payload has no list as    *)
(* its first element and does not unpack into four fields.                 *)
handle_book(b, a, f) ==
    CASE f.kind = "nested" -> BookSnapshot(b, a, f.rows)
      [] f.kind = "flat" ->
            IF Len(f.rows[1]) = 0 THEN [raised |-> FALSE, bids |-> b, asks |-> a]
            ELSE BookUpdate(b, a, f.rows[1])
      [] OTHER -> [raised |-> TRUE, bids |-> b, asks |-> a]

----------------------------------------------------------------------------
(* _add_trade: the stored form is (rate, amount, mts); an unpack failure   *)
(* is caught and logged.  Returns the history and the record appended.     *)
Stored(trade_data) == <<DecimalOf(trade_data[4]), DecimalOf(trade_data[3]), trade_data[2]>>

LastN(s, n) == IF Len(s) > n THEN SubSeq(s, Len(s) - n + 1, Len(s)) ELSE s

(* Mutant of add_trade: the prune keeps the oldest entries (trades[:1000]) *)
add_trade_KeepOldest(t, trade_data) ==
    IF Len(trade_data) # 5 THEN t
    ELSE LET appended == Append(t, Stored(trade_data))
         IN  IF Len(appended) > TRADE_CAP THEN SubSeq(appended, 1, TRADE_CAP) ELSE appended

add_trade(t, trade_data) ==
    IF Len(trade_data) # 5 THEN t
    ELSE LET appended == Append(t, Stored(trade_data))
         IN  IF Len(appended) > TRADE_CAP THEN LastN(appended, TRADE_CAP) ELSE appended

(* What add_trade appends to the history log *)
Appends(trade_data) == IF Len(trade_data) # 5 THEN <<>> ELSE <<Stored(trade_data)>>

RECURSIVE AddAll(_, _, _)
AddAll(t, rows, n) ==
    IF n = 0 THEN t ELSE add_trade(AddAll(t, rows, n - 1), rows[n])

RECURSIVE AppendsAll(_, _)
AppendsAll(rows, n) ==
    IF n = 0 THEN <<>> ELSE AppendsAll(rows, n - 1) \o Appends(rows[n])

(* _handle_trades(data): a list payload is walked element by element (the  *)
(* elements of a flat payload are numbers and fail to unpack); a "te" or   *)
(* "tu" tag takes data[2], which raises IndexError when it is missing.     *)
handle_trades(t, f) ==
    CASE f.kind = "nested" ->
            [raised |-> FALSE, trades |-> AddAll(t, f.rows, Len(f.rows)),
             appended |-> AppendsAll(f.rows, Len(f.rows))]
      [] f.kind = "flat" -> [raised |-> FALSE, trades |-> t, appended |-> <<>>]
      [] f.kind = "tag" /\ f.tag \in {"te", "tu"} ->
            IF Len(f.rows) = 0 THEN [raised |-> TRUE, trades |-> t, appended |-> <<>>]
            ELSE [raised |-> FALSE, trades |-> add_trade(t, f.rows[1]),
                  appended |-> Appends(f.rows[1])]
      [] OTHER -> [raised |-> FALSE, trades |-> t, appended |-> <<>>]

----------------------------------------------------------------------------
(* _handle_message on the current state: the outcome of one frame *)
Outcome(raised, cm, b, a, t, app) ==
    [raised |-> raised, chan_map |-> cm, bids |-> b, asks |-> a, trades |-> t,
     appended |-> app]

(* The list branch of _handle_message after the heartbeat test: the frame *)
(* is routed by the name its channel id is bound to.                       *)
route(f) ==
    LET same == Outcome(FALSE, chan_map, bids, asks, trades, <<>>)
        channel_name == Get(chan_map, f.chan)
    IN  IF channel_name = "None" THEN same
        ELSE IF channel_name = "book"
        THEN LET r == handle_book(bids, asks, f)
             IN  Outcome(r.raised, chan_map, r.bids, r.asks, trades, <<>>)
        ELSE IF channel_name = "trades"
        THEN LET r == handle_trades(trades, f)
             IN  Outcome(r.raised, chan_map, bids, asks, r.trades, r.appended)
        ELSE same

(* Mutant of handle_message: the heartbeat test is missing, so [chan, "hb"] *)
(* is routed like a data frame with a string payload.                      *)
handle_message_NoHeartbeatTest(f) ==
    LET same == Outcome(FALSE, chan_map, bids, asks, trades, <<>>)
    IN  CASE f.kind = "undecodable" -> [same EXCEPT !.raised = TRUE]
          [] f.kind = "info" -> same
          [] f.kind = "subscribed" ->
                [same EXCEPT !.chan_map = Put(chan_map, f.chan, f.name)]
          [] f.kind = "event" -> same
          [] OTHER -> route(f)

handle_message(f) ==
    LET same == Outcome(FALSE, chan_map, bids, asks, trades, <<>>)
    IN  CASE f.kind = "undecodable" -> [same EXCEPT !.raised = TRUE]
          [] f.kind = "info" -> same
          [] f.kind = "subscribed" ->
                [same EXCEPT !.chan_map = Put(chan_map, f.chan, f.name)]
          [] f.kind = "event" -> same
          [] f.kind = "hb" -> same
          [] OTHER -> route(f)

----------------------------------------------------------------------------
(* Frames *)

Frame(kind, chan, name, tag, rows) ==
    [kind |-> kind, chan |-> chan, name |-> name, tag |-> tag, rows |-> rows]

NoFrame == Frame("none", 0, "", "", <<>>)

Step(op, f, raised) == [op |-> op, frame |-> f, raised |-> raised]

Min(x, y) == IF x < y THEN x ELSE y

Max(x, y) == IF x > y THEN x ELSE y

(* The except branch of connect(): mark disconnected and sleep *)
ExceptBranch ==
    /\ connected' = FALSE
    /\ pc' = "backoff"
    /\ backoff_timer' = RECONNECT_DELAY
    /\ ws' = "none"

----------------------------------------------------------------------------
(* Mutant of ConnectOK: chan_map is not reset on connect *)
ConnectOK_KeepsMap ==
    /\ UNCHANGED others
    /\ pc = "connecting"
    /\ connected' = TRUE
    /\ ws' = "open"
    /\ pc' = "streaming"
    /\ hb_alive' = TRUE
    /\ hb_timer' = 0
    /\ acked' = {}
    /\ prior' = prior \cup DOMAIN chan_map
    /\ last' = [op |-> "connect", frame |-> NoFrame, raised |-> FALSE]
    /\ quiet' = 0
    /\ UNCHANGED <<chan_map, bids, asks, trades, last_update_age, backoff_timer, pre, log>>

(* connect(): websockets.connect succeeded and both subscriptions are sent; *)
(* the _heartbeat task of this connection is created.                       *)
ConnectOK ==
    /\ UNCHANGED others
    /\ pc = "connecting"
    /\ connected' = TRUE
    /\ chan_map' = EmptyDict
    /\ ws' = "open"
    /\ pc' = "streaming"
    /\ hb_alive' = TRUE
    /\ hb_timer' = 0
    /\ acked' = {}
    /\ prior' = prior \cup DOMAIN chan_map
    /\ quiet' = 0
    /\ last' = Step("connect", NoFrame, FALSE)
    /\ UNCHANGED <<bids, asks, trades, last_update_age, backoff_timer, pre, log>>

(* connect(): websockets.connect raises *)
ConnectError ==
    /\ UNCHANGED others
    /\ pc = "connecting"
    /\ ExceptBranch
    /\ last' = Step("connect_error", NoFrame, TRUE)
    /\ UNCHANGED <<chan_map, bids, asks, trades, last_update_age, hb_alive, hb_timer,
                   pre, log, acked, prior, quiet>>

(* connect(): the connection opens (connected, chan_map reset) and a       *)
(* subscription send raises                                                *)
SubscribeError ==
    /\ UNCHANGED others
    /\ pc = "connecting"
    /\ chan_map' = EmptyDict
    /\ acked' = {}
    /\ prior' = prior \cup DOMAIN chan_map
    /\ ExceptBranch
    /\ last' = Step("subscribe_error", NoFrame, TRUE)
    /\ UNCHANGED <<bids, asks, trades, last_update_age, hb_alive, hb_timer, pre, log, quiet>>

(* connect(): one iteration of "async for message in websocket":           *)
(* _handle_message, then last_update_time = time.time(); an exception      *)
(* leaves the loop for the except branch.                                  *)
Receive(f) ==
    /\ UNCHANGED others
    /\ pc = "streaming"
    /\ ws = "open"
    /\ LET r == handle_message(f)
       IN  /\ last' = Step("frame", f, r.raised)
           /\ pre' = [bids |-> bids, asks |-> asks]
           /\ IF r.raised
              THEN /\ ExceptBranch
                   /\ UNCHANGED <<chan_map, bids, asks, trades, last_update_age, log, acked>>
              ELSE /\ chan_map' = r.chan_map
                   /\ bids' = r.bids
                   /\ asks' = r.asks
                   /\ trades' = r.trades
                   /\ log' = log \o r.appended
                   /\ acked' = IF f.kind = "subscribed" THEN acked \cup {f.chan} ELSE acked
                   /\ last_update_age' = 0
                   /\ UNCHANGED <<pc, ws, connected, backoff_timer>>
    /\ quiet' = 0
    /\ UNCHANGED <<hb_alive, hb_timer, prior>>

(* connect(): the message iterator ends without an exception (the          *)
(* connection was closed with an OK close code); "while True" starts the   *)
(* next attempt at once.                                                   *)
IterEnd ==
    /\ UNCHANGED others
    /\ pc = "streaming"
    /\ ws \in {"open", "closing"}
    /\ pc' = "connecting"
    /\ ws' = "none"
    /\ last' = Step(IF ws = "closing" THEN "forced_end" ELSE "peer_end", NoFrame, FALSE)
    /\ UNCHANGED <<connected, chan_map, bids, asks, trades, last_update_age,
                   backoff_timer, hb_alive, hb_timer, pre, log, acked, prior>>
    /\ quiet' = 0

(* connect(): the message iterator raises (connection lost, or the close   *)
(* handshake failed)                                                       *)
IterError ==
    /\ UNCHANGED others
    /\ pc = "streaming"
    /\ ws \in {"open", "closing"}
    /\ ExceptBranch
    /\ last' = Step(IF ws = "closing" THEN "forced_error" ELSE "conn_error", NoFrame, TRUE)
    /\ UNCHANGED <<chan_map, bids, asks, trades, last_update_age, hb_alive, hb_timer,
                   pre, log, acked, prior>>
    /\ quiet' = 0

(* connect(): asyncio.sleep(5) of the except branch is over *)
BackoffWake ==
    /\ UNCHANGED others
    /\ pc = "backoff"
    /\ backoff_timer = 0
    /\ pc' = "connecting"
    /\ last' = Step("retry", NoFrame, FALSE)
    /\ UNCHANGED <<ws, connected, chan_map, bids, asks, trades, last_update_age,
                   backoff_timer, hb_alive, hb_timer, pre, log, acked, prior, quiet>>

(* _heartbeat: one iteration of the loop of the current connection's task. *)
(* websocket.close() acts on the socket the task was created with, so the  *)
(* task of an earlier connection can only close a socket that is closed    *)
(* already; it changes nothing and only the current task is kept.          *)
Stale == last_update_age > WS_TIMEOUT_SECONDS

(* Mutant of Heartbeat: the task leaves its loop after the first look *)
Heartbeat_BreaksAlways ==
    /\ UNCHANGED others
    /\ hb_alive
    /\ hb_timer = 0
    /\ hb_alive' = FALSE
    /\ IF connected /\ Stale
       THEN /\ ws' = IF ws = "open" THEN "closing" ELSE ws
            /\ last' = Step("hb_close", NoFrame, FALSE)
       ELSE /\ last' = Step("hb_exit", NoFrame, FALSE)
            /\ UNCHANGED ws
    /\ UNCHANGED <<pc, connected, chan_map, bids, asks, trades, last_update_age,
                   backoff_timer, hb_timer, pre, log, acked, prior, quiet>>

Heartbeat ==
    /\ UNCHANGED others
    /\ hb_alive
    /\ hb_timer = 0
    /\ IF ~connected
       THEN /\ hb_alive' = FALSE
            /\ last' = Step("hb_exit", NoFrame, FALSE)
            /\ UNCHANGED <<ws, hb_timer>>
       ELSE IF Stale
       THEN /\ hb_alive' = FALSE
            /\ ws' = IF ws = "open" THEN "closing" ELSE ws
            /\ last' = Step("hb_close", NoFrame, FALSE)
            /\ UNCHANGED hb_timer
       ELSE /\ hb_timer' = HB_INTERVAL
            /\ last' = Step("hb_sleep", NoFrame, FALSE)
            /\ UNCHANGED <<ws, hb_alive>>
    /\ UNCHANGED <<pc, connected, chan_map, bids, asks, trades, last_update_age,
                   backoff_timer, pre, log, acked, prior, quiet>>

(* Time passes: the clock advances by one watchdog interval.  A sleeping   *)
(* task wakes at or after its deadline.                                    *)
Tick ==
    /\ UNCHANGED others
    /\ last_update_age' = IF Stale THEN last_update_age
                          ELSE last_update_age + HB_INTERVAL
    /\ backoff_timer' = Max(0, backoff_timer - HB_INTERVAL)
    /\ hb_timer' = Max(0, hb_timer - HB_INTERVAL)
    /\ last' = Step("tick", NoFrame, FALSE)
    /\ quiet' = IF pc # "streaming" THEN 0
                ELSE IF quiet > WS_TIMEOUT_SECONDS THEN quiet ELSE quiet + HB_INTERVAL
    /\ UNCHANGED <<pc, ws, connected, chan_map, bids, asks, trades, hb_alive,
                   pre, log, acked, prior>>

----------------------------------------------------------------------------
(* The account operations of State (state.py).  No task of the engine      *)
(* calls them; they are the interface of State for its balance and its     *)
(* pending orders.                                                         *)

MaxBalance == 2      \* largest balance of the account runs, in units of 150 USD
MaxOrderId == 2      \* largest id of an order of the account runs

Balances == {150 * k : k \in 0..MaxBalance}

OrderIds == 1..MaxOrderId

(* The order ids remove_order is called with: every id an order can have   *)
(* and one that no order has.                                              *)
RemovedIds == 1..(MaxOrderId + 1)

(* Order(id, amount, rate, period, timestamp, type)                        *)
Orders ==
    {[id |-> i, amount |-> a, rate |-> 1, period |-> 2, timestamp |-> 0,
      type |-> "LIMIT"] : i \in OrderIds, a \in {150, 300}}

(* State.update_balance(available, lent): sets both balances and           *)
(* last_update_time = time.time()                                          *)
UpdateBalance(available, lent) ==
    /\ available_balance' = available
    /\ lent_balance' = lent
    /\ last_update_age' = 0
    /\ last' = Step("update_balance", NoFrame, FALSE)
    /\ UNCHANGED <<pc, ws, connected, chan_map, bids, asks, trades,
                   backoff_timer, hb_alive, hb_timer, pre, log, acked, prior, quiet>>
    /\ UNCHANGED <<pending_orders, limiter_vars, call, engine_vars, rest>>

(* Mutant of AddOrder: an id that is already pending keeps its first       *)
(* order (dict.setdefault)                                                 *)
AddOrder_KeepsFirst(order) ==
    /\ pending_orders' = IF order.id \in DOMAIN pending_orders
                         THEN pending_orders
                         ELSE Put(pending_orders, order.id, order)
    /\ last' = Step("add_order", NoFrame, FALSE)
    /\ UNCHANGED <<pc, ws, connected, chan_map, bids, asks, trades, last_update_age,
                   backoff_timer, hb_alive, hb_timer, pre, log, acked, prior, quiet>>
    /\ UNCHANGED <<available_balance, lent_balance, limiter_vars, call,
                   engine_vars, rest>>

(* State.add_order(order): self.pending_orders[order.id] = order           *)
AddOrder(order) ==
    /\ pending_orders' = Put(pending_orders, order.id, order)
    /\ last' = Step("add_order", NoFrame, FALSE)
    /\ UNCHANGED <<pc, ws, connected, chan_map, bids, asks, trades, last_update_age,
                   backoff_timer, hb_alive, hb_timer, pre, log, acked, prior, quiet>>
    /\ UNCHANGED <<available_balance, lent_balance, limiter_vars, call,
                   engine_vars, rest>>

(* State.remove_order(order_id): deletes the order if it is pending        *)
RemoveOrder(order_id) ==
    /\ pending_orders' = IF order_id \in DOMAIN pending_orders
                         THEN Del(pending_orders, order_id)
                         ELSE pending_orders
    /\ last' = Step("remove_order", NoFrame, FALSE)
    /\ UNCHANGED <<pc, ws, connected, chan_map, bids, asks, trades, last_update_age,
                   backoff_timer, hb_alive, hb_timer, pre, log, acked, prior, quiet>>
    /\ UNCHANGED <<available_balance, lent_balance, limiter_vars, call,
                   engine_vars, rest>>

----------------------------------------------------------------------------
(* The token bucket: RateLimiter of connectivity/rate_limiter.py.          *)
(*                                                                         *)
(* Units.  The bucket refills rate_limit tokens per window_seconds, and    *)
(* tokens is a real number.  The clock of the model advances in ticks of   *)
(* 1/rate_limit second and tokens is counted in units of 1/window_seconds  *)
(* token, so that one tick of elapsed time credits one unit               *)
(* (elapsed * rate_limit / window_seconds tokens), one token is            *)
(* window_seconds units, and (1 - tokens) * window_seconds / rate_limit    *)
(* seconds of waiting are (window_seconds - tokens) ticks.  The spacing    *)
(* window/capacity of the bucket is window_seconds ticks.  Every quantity  *)
(* of acquire() is then an integer, for every rate_limit and               *)
(* window_seconds.                                                         *)

(* The constructor's parameters.  RestClient builds RateLimiter(30) and the *)
(* window defaults to 60; the runs instantiate a smaller bucket.           *)
rate_limit == 2
window_seconds == 3

NCallers == 2        \* tasks that call acquire()
MaxCalls == 6        \* acquire() calls in one run

Callers == 1..NCallers

(* One token, and the capacity of the bucket, in units.                    *)
ONE == window_seconds

CAP == rate_limit * window_seconds

(* new_tokens = elapsed * (self.rate_limit / self.window_seconds)          *)
new_tokens(elapsed) == elapsed

Refill_NoCap(tok, elapsed) ==
    IF new_tokens(elapsed) > 0 THEN tok + new_tokens(elapsed) ELSE tok

(* if new_tokens > 0: self.tokens = min(self.rate_limit, tokens + new)     *)
Refill(tok, elapsed) ==
    IF new_tokens(elapsed) > 0 THEN Min(CAP, tok + new_tokens(elapsed)) ELSE tok

wait_time_InvertedRate(tok) ==
    ((ONE - tok) * rate_limit * rate_limit) \div (window_seconds * window_seconds)

(* wait_time = (1 - self.tokens) * (self.window_seconds / self.rate_limit), *)
(* in ticks                                                                *)
wait_time(tok) == ONE - tok

(* No grant yet.                                                           *)
NoGrant ==
    [n |-> 0, waited |-> FALSE, slept |-> 0, gap |-> 0,
     prev_waited |-> FALSE, burst |-> FALSE]

(* The history of a run of the limiter: calls that entered the critical    *)
(* section, grants that returned without waiting, units credited by        *)
(* refill, ticks since the first call (saturating at 1), whether every     *)
(* call so far entered at the instant of the first one, ticks since the    *)
(* latest grant and ticks the sleeping caller has slept (both saturating   *)
(* at one token's spacing), and the latest grant.                          *)
NoHistory ==
    [calls |-> 0, imm |-> 0, credited |-> 0, first_age |-> 0, burst |-> TRUE,
     since_grant |-> 0, slept |-> 0, grant |-> NoGrant]

LimiterInit_Empty ==
    /\ tokens = 0
    /\ refill_age = 0
    /\ holder = 0
    /\ waiters = <<>>
    /\ acq = [p \in Callers |-> "idle"]
    /\ sleep_left = 0
    /\ rl = NoHistory

(* RateLimiter.__init__: a full bucket, last_refill = now, a free lock     *)
LimiterInit ==
    /\ tokens = CAP
    /\ refill_age = 0
    /\ holder = 0
    /\ waiters = <<>>
    /\ acq = [p \in Callers |-> "idle"]
    /\ sleep_left = 0
    /\ rl = NoHistory

(* The body of acquire() under the lock, up to its first return or its     *)
(* sleep: refill, test, and either consume one token and return, or        *)
(* compute wait_time and sleep with the lock held.                         *)
Body(p) ==
    LET elapsed == refill_age
        tok == Refill(tokens, elapsed)
        n == rl.calls + 1
        burst == rl.burst /\ rl.first_age = 0
        h == [rl EXCEPT !.calls = n, !.burst = burst,
                        !.credited = @ + (tok - tokens)]
    IN  /\ refill_age' = IF new_tokens(elapsed) > 0 THEN 0 ELSE refill_age
        /\ IF tok >= ONE
           THEN /\ tokens' = tok - ONE
                /\ holder' = 0
                /\ acq' = [acq EXCEPT ![p] = "idle"]
                /\ sleep_left' = sleep_left
                /\ rl' = [h EXCEPT !.imm = @ + 1, !.since_grant = 0, !.slept = 0,
                                   !.grant = [n |-> n, waited |-> FALSE, slept |-> 0,
                                              gap |-> rl.since_grant,
                                              prev_waited |-> rl.grant.waited,
                                              burst |-> burst]]
           ELSE /\ tokens' = tok
                /\ holder' = p
                /\ acq' = [acq EXCEPT ![p] = "sleeping"]
                /\ sleep_left' = wait_time(tok)
                /\ rl' = [h EXCEPT !.slept = 0]

Acquire_NoLock(p) ==
    /\ acq[p] = "idle"
    /\ rl.calls + Len(waiters) < MaxCalls
    /\ Body(p) /\ UNCHANGED waiters
    /\ UNCHANGED beside_limiter

(* A task calls acquire(): `async with self.lock` takes a free lock that   *)
(* nobody waits for at once, and queues the caller otherwise.              *)
acquire(p) ==
    /\ acq[p] = "idle"
    /\ rl.calls + Len(waiters) < MaxCalls
    /\ IF holder = 0 /\ waiters = <<>>
       THEN Body(p) /\ UNCHANGED waiters
       ELSE /\ waiters' = Append(waiters, p)
            /\ acq' = [acq EXCEPT ![p] = "queued"]
            /\ UNCHANGED <<tokens, refill_age, holder, sleep_left, rl>>

(* acquire() called on the limiter alone                                   *)
Acquire(p) == acquire(p) /\ UNCHANGED beside_limiter

(* The lock was released: its first waiter takes it and runs the body.     *)
lock_acquired(p) ==
    /\ acq[p] = "queued"
    /\ holder = 0
    /\ waiters # <<>> /\ Head(waiters) = p
    /\ waiters' = Tail(waiters)
    /\ Body(p)

Enter(p) == lock_acquired(p) /\ UNCHANGED beside_limiter

Wake_KeepsLock(p) ==
    /\ acq[p] = "sleeping"
    /\ sleep_left = 0
    /\ tokens' = 0
    /\ refill_age' = 0
    /\ acq' = [acq EXCEPT ![p] = "idle"]
    /\ rl' = [rl EXCEPT !.since_grant = 0, !.slept = 0,
                        !.grant = [n |-> rl.calls, waited |-> TRUE,
                                   slept |-> rl.slept, gap |-> rl.since_grant,
                                   prev_waited |-> rl.grant.waited,
                                   burst |-> rl.burst]]
    /\ UNCHANGED <<holder, waiters, sleep_left>>
    /\ UNCHANGED beside_limiter

(* asyncio.sleep(wait_time) is over: the caller empties the bucket, stamps *)
(* last_refill, returns True and leaves the lock.                          *)
sleep_over(p) ==
    /\ acq[p] = "sleeping"
    /\ sleep_left = 0
    /\ tokens' = 0
    /\ refill_age' = 0
    /\ holder' = 0
    /\ acq' = [acq EXCEPT ![p] = "idle"]
    /\ rl' = [rl EXCEPT !.since_grant = 0, !.slept = 0,
                        !.grant = [n |-> rl.calls, waited |-> TRUE,
                                   slept |-> rl.slept, gap |-> rl.since_grant,
                                   prev_waited |-> rl.grant.waited,
                                   burst |-> rl.burst]]
    /\ UNCHANGED <<waiters, sleep_left>>

Wake(p) == sleep_over(p) /\ UNCHANGED beside_limiter

(* The clock advances by one tick.  A sleeping caller wakes at or after    *)
(* its deadline.  Elapsed time beyond a full refill changes nothing.       *)
LimiterTick ==
    /\ refill_age' = Min(CAP, refill_age + 1)
    /\ sleep_left' = Max(0, sleep_left - 1)
    /\ rl' = [rl EXCEPT !.first_age = IF rl.calls > 0 THEN 1 ELSE 0,
                        !.since_grant = Min(ONE, @ + 1),
                        !.slept = IF holder # 0 THEN Min(ONE, @ + 1) ELSE 0]
    /\ UNCHANGED <<tokens, holder, waiters, acq>>
    /\ UNCHANGED beside_limiter

----------------------------------------------------------------------------
(* The engine (main.py), the account fields of State (state.py) and the    *)
(* authenticated REST client (rest_client.py) after construction.          *)

(* The periodic tasks start() creates besides connect()                    *)
Tasks == {"signals", "rebalance", "report"}

(* No iteration of the rebalance loop yet.                                 *)
NoCycle == [op |-> "none", open |-> FALSE, sampled |-> FALSE]

(* ZenithEngine.__init__ and start(): running is True, every task is at    *)
(* the test of its `while self.running`, the predictor's window is empty.  *)
EngineInit ==
    /\ running = TRUE
    /\ task = [t \in Tasks |-> "test"]
    /\ perp_funding_rate = 0
    /\ is_aggressive_mode = FALSE
    /\ taker_volumes = <<>>
    /\ cycle = NoCycle
    /\ samples = <<>>

(* State.__init__: no balance, no pending order                            *)
AccountInit ==
    /\ available_balance = 0
    /\ lent_balance = 0
    /\ pending_orders = EmptyDict

(* No call of _post() yet.                                                 *)
NoPosts == [phase |-> [p \in Callers |-> "idle"], sent |-> 0]

(* RestClient._post over its own RateLimiter.  A caller of _post is at     *)
(* "acquire" while its `await self.rate_limiter.acquire()` is pending, at  *)
(* "send" once it has returned and the request is being built, and "idle"  *)
(* again when session.post has sent the request.  submit_offer and         *)
(* cancel_offer are _post with their own path and payload.                 *)
Returned(p, phase) ==
    [phase EXCEPT ![p] = IF acq'[p] = "idle" THEN "send" ELSE "acquire"]

(* _post is called: it calls acquire()                                     *)
PostCall(p) ==
    /\ rest.phase[p] = "idle"
    /\ acquire(p)
    /\ rest' = [rest EXCEPT !.phase = Returned(p, @)]
    /\ UNCHANGED <<ingest_vars, call, engine_vars, account_vars>>

(* The pending acquire() of a _post takes the lock                         *)
PostLock(p) ==
    /\ rest.phase[p] = "acquire"
    /\ lock_acquired(p)
    /\ rest' = [rest EXCEPT !.phase = Returned(p, @)]
    /\ UNCHANGED <<ingest_vars, call, engine_vars, account_vars>>

(* The pending acquire() of a _post ends its sleep and returns             *)
PostWake(p) ==
    /\ rest.phase[p] = "acquire"
    /\ sleep_over(p)
    /\ rest' = [rest EXCEPT !.phase = Returned(p, @)]
    /\ UNCHANGED <<ingest_vars, call, engine_vars, account_vars>>

PostSend_BeforeReturn(p) ==
    /\ rest.phase[p] \in {"acquire", "send"}
    /\ rest' = [rest EXCEPT !.phase[p] = "idle", !.sent = @ + 1]
    /\ UNCHANGED <<ingest_vars, limiter_vars, call, engine_vars, account_vars>>

(* session.post(...): the signed request goes out, and _post returns       *)
PostSend(p) ==
    /\ rest.phase[p] = "send"
    /\ rest' = [rest EXCEPT !.phase[p] = "idle", !.sent = @ + 1]
    /\ UNCHANGED <<ingest_vars, limiter_vars, call, engine_vars, account_vars>>

(* No pure function applied yet.                                           *)
NoCall == [fn |-> "none", args |-> <<>>, out |-> <<>>]

----------------------------------------------------------------------------
(* State after construction: State.__init__, WebSocketClient.__init__, the *)
(* connect() task created by ZenithEngine.start, and RateLimiter.__init__  *)
(* from RestClient.__init__                                                *)
Init ==
    /\ pc = "connecting"
    /\ ws = "none"
    /\ connected = FALSE
    /\ chan_map = EmptyDict
    /\ bids = EmptyDict
    /\ asks = EmptyDict
    /\ trades = <<>>
    /\ last_update_age = 0
    /\ backoff_timer = 0
    /\ hb_alive = FALSE
    /\ hb_timer = 0
    /\ last = Step("init", NoFrame, FALSE)
    /\ pre = [bids |-> EmptyDict, asks |-> EmptyDict]
    /\ log = <<>>
    /\ acked = {}
    /\ prior = {}
    /\ quiet = 0
    /\ LimiterInit
    /\ call = NoCall
    /\ EngineInit
    /\ AccountInit
    /\ rest = NoPosts

----------------------------------------------------------------------------
(* Inputs of the order-book runs: one book channel, every update and every *)
(* snapshot of at most MaxSnapshot rows over two rates.                    *)

(* Channel id 1 carries the book and 2 the trades where a run binds them;  *)
(* every row carries period 2.                                             *)
BookRates == {1, 2}
BookAmounts == {-1, 0, 1, 2}

BookEntries == {<<r, 2, c, a>> : r \in BookRates, c \in {0, 1}, a \in BookAmounts}

SnapshotEntries == {<<r, 2, 1, a>> : r \in BookRates, a \in {-1, 1}}

ZeroEntry == <<1, 2, 1, 0>>

ShortEntry == <<1, 2, 1>>

RECURSIVE SeqsUpTo(_, _)
SeqsUpTo(S, n) ==
    IF n = 0 THEN {<<>>}
    ELSE LET shorter == SeqsUpTo(S, n - 1)
         IN  shorter \cup {Append(s, x) : s \in shorter, x \in S}

BookFrames ==
    {Frame("subscribed", 1, "book", "", <<>>)}
    \cup {Frame("flat", 1, "", "", <<e>>) : e \in BookEntries \cup {ShortEntry, <<>>}}
    \cup {Frame("nested", 1, "", "", rows) :
            rows \in SeqsUpTo(SnapshotEntries, MaxSnapshot) \ {<<>>}}
    \cup {Frame("nested", 1, "", "", rows) :
            rows \in {<<ZeroEntry>>, <<<<1, 2, 1, 1>>, ZeroEntry>>, <<<<1, 2, 1, 1>>, ShortEntry>>}}

NextBook ==
    \/ ConnectOK
    \/ \E f \in BookFrames : Receive(f)

SpecBook == Init /\ [][NextBook]_vars

(* The account runs: ingestion of one book channel, the clock, and the     *)
(* account operations in any order.                                        *)
AccountFrames ==
    {Frame("subscribed", 1, "book", "", <<>>),
     Frame("flat", 1, "", "", <<<<1, 2, 1, 1>>>>),
     Frame("flat", 1, "", "", <<<<2, 2, 1, -1>>>>)}

NextAccount ==
    \/ ConnectOK
    \/ \E f \in AccountFrames : Receive(f)
    \/ Tick
    \/ \E available \in Balances, lent \in Balances : UpdateBalance(available, lent)
    \/ \E order \in Orders : AddOrder(order)
    \/ \E order_id \in RemovedIds : RemoveOrder(order_id)

SpecAccount == Init /\ [][NextAccount]_vars

(* The order runs: the account operations in any order, interleaved with   *)
(* the ingestion of one book channel; no time passes.                      *)
NextOrders ==
    \/ ConnectOK
    \/ \E f \in AccountFrames : Receive(f)
    \/ \E available \in Balances, lent \in Balances : UpdateBalance(available, lent)
    \/ \E order \in Orders : AddOrder(order)
    \/ \E order_id \in RemovedIds : RemoveOrder(order_id)

SpecOrders == Init /\ [][NextOrders]_vars


----------------------------------------------------------------------------
(* Order-book claims *)

(* The step taken last handled data frame of the given kind on a channel   *)
(* bound to the given name, without raising.                               *)
Applied(kind, name) ==
    /\ last.op = "frame"
    /\ ~last.raised
    /\ last.frame.kind = kind
    /\ Get(chan_map, last.frame.chan) = name

Rows == last.frame.rows

(* The rates of the rows on one side, and the last row of a rate on it *)
BidRows(rows) == {i \in 1..Len(rows) : rows[i][4] > 0}
AskRows(rows) == {i \in 1..Len(rows) : rows[i][4] <= 0}
RatesOf(rows, I) == {rows[i][1] : i \in I}
LastRow(rows, I, r) == CHOOSE i \in I : rows[i][1] = r /\ \A j \in I : rows[j][1] = r => j <= i

(* The level a dict holds at a rate, "None" when it holds none *)
Level(d, r) == IF r \in DOMAIN d THEN <<d[r]>> ELSE <<>>

(* C1: no rate is a key of both the bid mapping and the ask mapping. *)
C1_NoRateOnBothSides == (DOMAIN bids) \cap (DOMAIN asks) = {}

(* C2: a book snapshot leaves exactly its own levels in the book (positive *)
(* amounts as bids, the others as asks at their magnitude, the last row of *)
(* a rate deciding its amount), so nothing from before survives; a book    *)
(* update changes no level at any rate but its own.                        *)
C2_SnapshotReplacesUpdateIsLocal ==
    /\ Applied("nested", "book") =>
          /\ DOMAIN bids = RatesOf(Rows, BidRows(Rows))
          /\ DOMAIN asks = RatesOf(Rows, AskRows(Rows))
          /\ \A r \in DOMAIN bids : bids[r] = Rows[LastRow(Rows, BidRows(Rows), r)][4]
          /\ \A r \in DOMAIN asks : asks[r] = -Rows[LastRow(Rows, AskRows(Rows), r)][4]
    /\ (Applied("flat", "book") /\ Len(Rows[1]) = 4) =>
          \A r \in (DOMAIN bids) \cup (DOMAIN asks) \cup (DOMAIN pre.bids) \cup (DOMAIN pre.asks) :
             r # Rows[1][1] =>
                /\ Level(bids, r) = Level(pre.bids, r)
                /\ Level(asks, r) = Level(pre.asks, r)

(* A snapshot was applied over a book holding a level it does not carry,   *)
(* and an update was applied beside a level at another rate.               *)
C2_Witness ==
    /\ Applied("nested", "book")
    /\ \E r \in DOMAIN pre.bids : r \notin RatesOf(Rows, BidRows(Rows))
    /\ \E r \in DOMAIN pre.asks : r \notin RatesOf(Rows, AskRows(Rows))
    /\ Len(Rows) = 2

C2_WitnessUpdate ==
    /\ Applied("flat", "book")
    /\ Len(Rows[1]) = 4
    /\ \E r \in DOMAIN pre.bids : r # Rows[1][1]

(* C3: a zero-count update leaves its rate on neither side; an update with *)
(* non-zero count and amount for a rate that was on neither side puts it   *)
(* on exactly one side, bids for a positive amount and asks for a negative *)
(* one, at the magnitude of the amount.                                    *)
C3_UpdateEffect ==
    (Applied("flat", "book") /\ Len(Rows[1]) = 4) =>
        LET rate == Rows[1][1]
            count == Rows[1][3]
            amount == Rows[1][4]
        IN  /\ count = 0 => rate \notin (DOMAIN bids) \cup (DOMAIN asks)
            /\ (/\ count # 0
                /\ amount > 0
                /\ rate \notin (DOMAIN pre.bids) \cup (DOMAIN pre.asks)) =>
                   /\ rate \in DOMAIN bids
                   /\ rate \notin DOMAIN asks
                   /\ bids[rate] = amount
            /\ (/\ count # 0
                /\ amount < 0
                /\ rate \notin (DOMAIN pre.bids) \cup (DOMAIN pre.asks)) =>
                   /\ rate \in DOMAIN asks
                   /\ rate \notin DOMAIN bids
                   /\ asks[rate] = -amount

(* A zero-count update removed a rate that was on both sides *)
C3_Witness ==
    /\ Applied("flat", "book")
    /\ Len(Rows[1]) = 4
    /\ Rows[1][3] = 0
    /\ Rows[1][1] \in (DOMAIN pre.bids) \cap (DOMAIN pre.asks)

(* An update inserted a negative amount at a rate that was on neither side *)
C3_WitnessInsert ==
    /\ Applied("flat", "book")
    /\ Len(Rows[1]) = 4
    /\ Rows[1][3] # 0
    /\ Rows[1][4] < 0
    /\ Rows[1][1] \notin (DOMAIN pre.bids) \cup (DOMAIN pre.asks)
    /\ DOMAIN pre.bids # {}


----------------------------------------------------------------------------
(* Inputs of the trade-history runs: the exchange numbers its trades; the  *)
(* frames after n trades carry the trades that follow, as an execution     *)
(* frame, an update frame or a snapshot of at most MaxSnapshot trades.     *)

Trade(k) == <<k, k, IF k % 2 = 0 THEN -1 ELSE 2, 1 + (k % 3), 2>>

ShortTrade == <<1, 1, 1, 1>>

RECURSIVE TradesFrom(_, _)
TradesFrom(n, k) == IF k = 0 THEN <<>> ELSE Append(TradesFrom(n, k - 1), Trade(n + k))

TradeFrames(n) ==
    {Frame("subscribed", 2, "trades", "", <<>>)}
    \cup {Frame("tag", 2, "", tag, <<Trade(n + 1)>>) : tag \in {"te", "tu", "fte"}}
    \cup {Frame("tag", 2, "", "te", <<>>)}
    \cup {Frame("nested", 2, "", "", TradesFrom(n, k)) : k \in 1..MaxSnapshot}
    \cup {Frame("nested", 2, "", "", <<ShortTrade, Trade(n + 1)>>)}

NextTrades ==
    \/ ConnectOK
    \/ \E f \in TradeFrames(Len(log)) :
          /\ Len(log) + Len(f.rows) <= MaxFeed
          /\ Receive(f)

SpecTrades == Init /\ [][NextTrades]_vars

(* The replay runs: the feed of the exchange as it is sent.  A trade is     *)
(* announced by an execution frame ("te") and then by an update frame      *)
(* ("tu") that carries the same trade; after the trades channel is         *)
(* acknowledged the exchange sends a snapshot of its latest trades, those  *)
(* sent before included.  A trade of the feed has its id as timestamp.     *)
MaxReplayTrades == 2   \* trades the exchange executes in a replay run
MaxReplayLog == 6      \* records appended in a replay run

RECURSIVE LatestId(_)
LatestId(appended) ==
    IF appended = <<>> THEN 0
    ELSE Max(appended[Len(appended)][3], LatestId(SubSeq(appended, 1, Len(appended) - 1)))

ReplayFrames ==
    {Frame("subscribed", 2, "trades", "", <<>>)}
    \cup {Frame("tag", 2, "", "te", <<Trade(LatestId(log) + 1)>>)}
    \cup (IF last.op = "frame" /\ last.frame.tag = "te"
          THEN {Frame("tag", 2, "", "tu", last.frame.rows)}
          ELSE {})
    \cup (IF last.op = "frame" /\ last.frame.kind = "subscribed"
          THEN {Frame("nested", 2, "", "", TradesFrom(0, Max(1, LatestId(log))))}
          ELSE {})

NextReplay ==
    \/ ConnectOK
    \/ IterEnd
    \/ \E f \in ReplayFrames :
          /\ LatestId(log) + (IF f.tag = "te" THEN 1 ELSE 0) <= MaxReplayTrades
          /\ Len(log) + Len(f.rows) <= MaxReplayLog
          /\ Receive(f)

SpecReplay == Init /\ [][NextReplay]_vars

(* C4: the trade history never holds more than 1000 entries, and it is the *)
(* most recently appended entries in the order they were appended.         *)
C4_HistoryIsLastAppended ==
    /\ Len(trades) <= TRADE_CAP
    /\ Len(trades) = Min(Len(log), TRADE_CAP)
    /\ \A i \in 1..Len(trades) : trades[i] = log[Len(log) - Len(trades) + i]

(* More than the cap was appended: the oldest entries are gone *)
C4_Witness ==
    /\ Len(log) > TRADE_CAP + 1
    /\ Len(trades) = TRADE_CAP
    /\ trades[1] # log[1]
    /\ last.op = "frame"


----------------------------------------------------------------------------
(* Inputs of the connection runs: every frame shape on two channel ids,    *)
(* over one rate; at most MaxProtoTrades trades are appended.              *)

ChanIds == {1, 2}

ProtoFrames(n) ==
    {Frame(kind, 0, "", "", <<>>) : kind \in {"undecodable", "info", "event"}}
    \cup {Frame("subscribed", c, name, "", <<>>) : c \in ChanIds, name \in {"book", "trades"}}
    \cup {Frame("hb", c, "", "", <<>>) : c \in ChanIds}
    \cup {Frame("flat", c, "", "", <<e>>) :
            c \in ChanIds,
            e \in {<<1, 2, 1, 1>>, <<1, 2, 1, -1>>, <<1, 2, 0, 1>>, ShortEntry}}
    \cup {Frame("tag", c, "", "te", <<Trade(n + 1)>>) : c \in ChanIds}

Frames ==
    \E f \in ProtoFrames(Len(log)) :
        /\ Len(log) + Len(handle_message(f).appended) <= MaxProtoTrades
        /\ Receive(f)

Next ==
    \/ ConnectOK
    \/ ConnectError
    \/ SubscribeError
    \/ Frames
    \/ IterEnd
    \/ IterError
    \/ BackoffWake
    \/ Heartbeat
    \/ Tick

Spec == Init /\ [][Next]_vars


(* The connection runs under the scheduling the event loop gives: time     *)
(* passes, a task whose sleep is over runs, and a close that was started   *)
(* completes.  Frames and connection errors are left to the environment,   *)
(* and the frames are a heartbeat, the book acknowledgment and one update. *)

LiveFrames ==
    {Frame("hb", 1, "", "", <<>>),
     Frame("subscribed", 1, "book", "", <<>>),
     Frame("flat", 1, "", "", <<<<1, 2, 1, 1>>>>)}

CloseCompletes == ws = "closing" /\ (IterEnd \/ IterError)

NextLive ==
    \/ ConnectOK
    \/ ConnectError
    \/ SubscribeError
    \/ \E f \in LiveFrames : Receive(f)
    \/ IterEnd
    \/ IterError
    \/ BackoffWake
    \/ Heartbeat
    \/ Tick

SpecLive ==
    /\ Init
    /\ [][NextLive]_vars
    /\ WF_vars(Tick)
    /\ WF_vars(Heartbeat)
    /\ WF_vars(CloseCompletes)
    /\ WF_vars(BackoffWake)

----------------------------------------------------------------------------
(* Connection claims *)

DataKinds == {"nested", "flat", "tag"}

(* The step handles a data frame *)
DataStep == last'.op = "frame" /\ last'.frame.kind \in DataKinds

(* C5: every connect empties the channel-id mapping before a frame of the  *)
(* new connection is handled, and a data frame whose channel id has not    *)
(* been acknowledged on the current connection changes neither the book    *)
(* nor the trade history.                                                  *)
C5_ReconnectDropsStaleIds ==
    [][/\ (ws # "open" /\ ws' = "open") => chan_map' = EmptyDict
       /\ (DataStep /\ last'.frame.chan \notin acked) =>
             UNCHANGED <<bids, asks, trades>>]_vars

(* A data frame arrived on an id bound on an earlier connection only, over *)
(* a book that holds a level.                                              *)
C5_Witness ==
    /\ last.op = "frame"
    /\ ~last.raised
    /\ last.frame.kind = "flat"
    /\ Len(last.frame.rows[1]) = 4
    /\ last.frame.rows[1][3] = 0
    /\ last.frame.chan \in prior
    /\ last.frame.chan \notin acked
    /\ acked # {}
    /\ DOMAIN bids # {}

(* C6: when a connection ends, by an error or by the watchdog's close, the *)
(* ingestor is marked disconnected and sleeps the 5 second backoff before  *)
(* the next attempt.                                                       *)
C6_EndMarksDisconnectedAndBacksOff ==
    [][(pc = "streaming" /\ pc' # "streaming" /\ (ws = "closing" \/ last'.raised)) =>
          /\ connected' = FALSE
          /\ pc' = "backoff"
          /\ backoff_timer' = RECONNECT_DELAY]_vars

(* C7: a malformed frame on a bound channel is dropped: the book and the   *)
(* trade history stay as they were and the connection stays up.            *)
Malformed(f) ==
    \/ f.kind = "flat" /\ Len(f.rows[1]) \notin {0, 4}
    \/ f.kind = "nested" /\ \E i \in 1..Len(f.rows) : Len(f.rows[i]) # 4

C7_MalformedFrameDropped ==
    [][(/\ last'.op = "frame"
        /\ Malformed(last'.frame)
        /\ Get(chan_map, last'.frame.chan) = "book") =>
          /\ UNCHANGED <<bids, asks, trades>>
          /\ connected' = connected
          /\ pc' = "streaming"]_vars

(* C8: with no acknowledgment received on the current connection the      *)
(* channel-id mapping is empty, and a data frame whose channel id is not   *)
(* in the mapping leaves bids, asks and trades unchanged.                  *)
C8_UnmappedFrameDropped ==
    [][/\ (ws' = "open" /\ acked' = {}) => chan_map' = EmptyDict
       /\ (DataStep /\ last'.frame.chan \notin DOMAIN chan_map) =>
             UNCHANGED <<bids, asks, trades>>]_vars

(* A well-formed trade frame arrived before any acknowledgment *)
C8_Witness ==
    /\ last.op = "frame"
    /\ ~last.raised
    /\ last.frame.kind = "tag"
    /\ acked = {}
    /\ chan_map = EmptyDict
    /\ ws = "open"
    /\ last_update_age = 0

(* C9: a heartbeat frame changes the last-activity timestamp and nothing   *)
(* else of the book, the trade history, the channel-id mapping or the      *)
(* connection.                                                             *)
C9_HeartbeatOnlyStamps ==
    [][(last'.op = "frame" /\ last'.frame.kind = "hb") =>
          /\ UNCHANGED <<bids, asks, trades, chan_map, connected, pc, ws>>
          /\ last_update_age' = 0]_vars

(* A heartbeat arrived on the bound book channel over a book that holds a  *)
(* level.                                                                  *)
C9_Witness ==
    /\ last.op = "frame"
    /\ last.frame.kind = "hb"
    /\ Get(chan_map, last.frame.chan) = "book"
    /\ DOMAIN bids # {}
    /\ Len(trades) > 0
    /\ last_update_age = 0

(* C10: an open connection on which no frame has been received for longer  *)
(* than the timeout is followed by a new connection attempt, unless a      *)
(* frame arrives first.                                                    *)
C10_StaleConnectionIsReplaced ==
    (pc = "streaming" /\ ws = "open" /\ Stale) ~> (pc = "connecting" \/ ~Stale)

(* The watchdog has closed a stale connection and the next attempt began *)
C10_Witness ==
    /\ last.op = "forced_end"
    /\ pc = "connecting"
    /\ Stale

----------------------------------------------------------------------------
(* The rate limiter on its own: NCallers tasks call acquire() at any time  *)
(* while the clock advances.                                               *)
NextLimiter ==
    \/ \E p \in Callers : Acquire(p)
    \/ \E p \in Callers : Enter(p)
    \/ \E p \in Callers : Wake(p)
    \/ LimiterTick

SpecLimiter == Init /\ [][NextLimiter]_vars

(* The same runs under the scheduling of asyncio: time advances, a sleep   *)
(* that is over returns, and a released lock is handed to its first        *)
(* waiter.                                                                 *)
SpecLimiterLive ==
    /\ Init
    /\ [][NextLimiter]_vars
    /\ WF_vars(LimiterTick)
    /\ \A p \in Callers : WF_vars(Enter(p))
    /\ \A p \in Callers : WF_vars(Wake(p))

(* C11: in every reachable state of the rate limiter the token count is    *)
(* at least 0 and at most the capacity.                                    *)
C11_TokensWithinBucket == 0 <= tokens /\ tokens <= CAP

(* A caller waited and emptied the bucket, after a refill credited tokens. *)
C11_Witness == rl.grant.waited /\ tokens = 0 /\ rl.credited > 0

(* C12 as stated: from a full bucket the first rate_limit calls return     *)
(* without waiting and call rate_limit + 1 waits at least one spacing      *)
(* (window/capacity), whatever time passes between the calls.              *)
C12_FirstWaitIsFullSpacing ==
    /\ (rl.grant.n >= 1 /\ rl.grant.n <= rate_limit) => ~rl.grant.waited
    /\ rl.grant.n = rate_limit + 1 =>
           (rl.grant.waited /\ rl.grant.slept >= ONE)

(* C12 amended: from a full bucket the first rate_limit calls return       *)
(* without waiting, and when the first rate_limit + 1 calls are made       *)
(* back-to-back, with no time passing between them, call rate_limit + 1    *)
(* waits at least one spacing (window/capacity) before it returns.         *)
C12_BackToBackBurstWaits ==
    /\ (rl.grant.n >= 1 /\ rl.grant.n <= rate_limit) => ~rl.grant.waited
    /\ (rl.grant.n = rate_limit + 1 /\ rl.grant.burst) =>
           (rl.grant.waited /\ rl.grant.slept >= ONE)

(* Call rate_limit + 1 of a back-to-back burst has been granted.           *)
C12_Witness ==
    rl.grant.n = rate_limit + 1 /\ rl.grant.burst /\ rl.grant.waited

(* C13 as stated: a grant that had to wait comes at least one spacing      *)
(* (window/capacity) after the grant before it.                            *)
C13_WaitedGrantSpacing ==
    (rl.grant.waited /\ rl.grant.n > 1) => rl.grant.gap >= ONE

(* C13 amended: a grant that had to wait comes at least one spacing        *)
(* (window/capacity) after the grant before it when that grant had to wait *)
(* too.                                                                    *)
C13_ConsecutiveWaitedGrantSpacing ==
    (rl.grant.waited /\ rl.grant.n > 1 /\ rl.grant.prev_waited) =>
        rl.grant.gap >= ONE

(* Two grants in a row had to wait.                                        *)
C13_Witness == rl.grant.waited /\ rl.grant.n > 1 /\ rl.grant.prev_waited

(* C14: at most one caller is inside the critical section of acquire(), a  *)
(* sleeping caller keeps it for its whole wait, and the grants that        *)
(* returned without waiting never outnumber the initial tokens plus the    *)
(* tokens credited by refill.                                              *)
C14_OneCriticalSection ==
    /\ Cardinality({p \in Callers : acq[p] = "sleeping"}) <= 1
    /\ \A p \in Callers : acq[p] = "sleeping" <=> holder = p
    /\ rl.imm * ONE <= CAP + rl.credited

(* A caller sleeps inside the section while another one queues for it,     *)
(* after more immediate grants than the bucket held at the start.          *)
C14_Witness ==
    /\ \E p \in Callers : acq[p] = "sleeping"
    /\ \E p \in Callers : acq[p] = "queued"
    /\ rl.imm > rate_limit

(* C15: every acquire() call eventually returns, for any number of         *)
(* concurrent callers, when time advances and the scheduler is fair.       *)
C15_AcquireReturns ==
    \A p \in Callers : (acq[p] # "idle") ~> (acq[p] = "idle")

(* A caller queues for the lock behind a sleeping one.                     *)
C15_Witness ==
    \E p, q \in Callers : acq[p] = "queued" /\ acq[q] = "sleeping"

----------------------------------------------------------------------------
(* The pure computations: DistributionStrategy.generate_orders,            *)
(* Rebalancer and MarketStats.calculate_vwar.                              *)
(*                                                                         *)
(* Numbers.  The code computes in binary floating point and in Decimal;    *)
(* the model computes the same expressions exactly, on scaled integers     *)
(* and on fractions [num, den].  Capital is in whole USD, an amount in     *)
(* 1/100 USD (capital times a weight in percent) and a layer's rate in     *)
(* 1/200 of the unit of vwar and volatility; signal_bias is in percent.    *)
(* The rounding of a floating-point product or quotient, at most one unit  *)
(* in the last place, is outside the model.                                *)

MIN_ORDER_SIZE == 150              \* USD
EFFICIENCY_THRESHOLD == 125        \* 1.25, in hundredths

MaxCapital == 1000   \* largest available capital of a run, USD
MaxRate == 3         \* largest rate of the rebalance and VWAR inputs
MaxTradeSet == 3     \* trades in a VWAR input

LAYER_WEIGHTS_Over == [BASE |-> 40, ALPHA |-> 40, SPIKE |-> 30]

(* Config.LAYER_WEIGHTS, in percent                                        *)
LAYER_WEIGHTS == [BASE |-> 40, ALPHA |-> 30, SPIKE |-> 30]

MeetsMinimum_Strict(amt) == amt > MIN_ORDER_SIZE * 100

MeetsMinimum_AnyAmount(amt) == amt > 0

(* if base_amt >= Config.MIN_ORDER_SIZE, and the same test of the other    *)
(* two layers                                                              *)
MeetsMinimum(amt) == amt >= MIN_ORDER_SIZE * 100

(* generate_orders: the layers whose amount meets the minimum, appended in *)
(* the order Base, Alpha, Spike.  float(available_capital) is exact on a   *)
(* whole number of USD.                                                    *)
generate_orders(available_capital, vwar, volatility, signal_bias) ==
    LET mu == vwar * (100 + signal_bias)
        sigma == volatility
        total_cap == available_capital
        base_amt == total_cap * LAYER_WEIGHTS.BASE
        alpha_amt == total_cap * LAYER_WEIGHTS.ALPHA
        spike_amt == total_cap * LAYER_WEIGHTS.SPIKE
        alpha_rate == 2 * mu + 100 * sigma
        spike_rate == 2 * mu + 600 * sigma
        base == IF MeetsMinimum(base_amt)
                THEN <<[layer |-> "BASE", amount |-> base_amt,
                        rate_target |-> "BEST_BID"]>>
                ELSE <<>>
        alpha == IF MeetsMinimum(alpha_amt)
                 THEN <<[layer |-> "ALPHA", amount |-> alpha_amt,
                         rate |-> alpha_rate]>>
                 ELSE <<>>
        spike == IF MeetsMinimum(spike_amt)
                 THEN <<[layer |-> "SPIKE", amount |-> spike_amt,
                         rate |-> spike_rate]>>
                 ELSE <<>>
    IN  base \o alpha \o spike

(* The fraction returned for 0.0                                           *)
Zero == [num |-> 0, den |-> 1]

(* calculate_efficiency_threshold: the quotient numerator / denominator,   *)
(* and 0.0 when the market rate or the combined time is 0                  *)
calculate_efficiency_threshold(r_target, r_current, r_market, t_wait, t_exec) ==
    IF r_market = 0 \/ (t_wait + t_exec) = 0
    THEN Zero
    ELSE [num |-> (r_target - r_current) * 2880,
          den |-> r_market * (t_wait + t_exec)]

(* x > y for a fraction x with a denominator other than 0 and y in         *)
(* hundredths                                                              *)
GreaterThan(x, y) ==
    IF x.den > 0 THEN 100 * x.num > y * x.den ELSE 100 * x.num < y * x.den

should_rebalance_AtThreshold(eta) ==
    IF eta.den > 0 THEN 100 * eta.num >= EFFICIENCY_THRESHOLD * eta.den
    ELSE 100 * eta.num <= EFFICIENCY_THRESHOLD * eta.den

(* should_rebalance: eta > Config.EFFICIENCY_THRESHOLD                     *)
should_rebalance(eta) == GreaterThan(eta, EFFICIENCY_THRESHOLD)

Abs(x) == IF x < 0 THEN -x ELSE x

(* sum(abs(amount) for _, amount, _ in trades)                             *)
RECURSIVE total_vol(_)
total_vol(ts) ==
    IF ts = <<>> THEN 0 ELSE Abs(Head(ts)[2]) + total_vol(Tail(ts))

(* sum(rate * abs(amount) for rate, amount, _ in trades)                   *)
RECURSIVE weighted_sum(_)
weighted_sum(ts) ==
    IF ts = <<>> THEN 0 ELSE Head(ts)[1] * Abs(Head(ts)[2]) + weighted_sum(Tail(ts))

RECURSIVE signed_vol(_)
signed_vol(ts) ==
    IF ts = <<>> THEN 0 ELSE Head(ts)[2] + signed_vol(Tail(ts))

RECURSIVE signed_sum(_)
signed_sum(ts) ==
    IF ts = <<>> THEN 0 ELSE Head(ts)[1] * Head(ts)[2] + signed_sum(Tail(ts))

calculate_vwar_Signed(ts) ==
    IF ts = <<>> THEN Zero
    ELSE IF signed_vol(ts) = 0 THEN Zero
    ELSE [num |-> signed_sum(ts), den |-> signed_vol(ts)]

(* calculate_vwar: the quotient weighted_sum / total_vol, and 0.0 for no   *)
(* trades and for a total volume of 0                                      *)
calculate_vwar(ts) ==
    IF ts = <<>> THEN Zero
    ELSE IF total_vol(ts) = 0 THEN Zero
    ELSE [num |-> weighted_sum(ts), den |-> total_vol(ts)]

----------------------------------------------------------------------------
(* Binary floating point.  np.mean and np.std compute in float64: every    *)
(* sum, difference, product and quotient is rounded to the nearest value   *)
(* with a significand of 53 bits, ties to even.  The model keeps the       *)
(* arithmetic and shortens the significand to Precision bits.  A float is  *)
(* [m, e], the number m * 2^e with 2^(Precision-1) <= |m| < 2^Precision,   *)
(* or m = 0.                                                               *)

Precision == 4       \* bits of the significand of a float of the model

RECURSIVE Pow2(_)
Pow2(k) == IF k = 0 THEN 1 ELSE 2 * Pow2(k - 1)

(* The bits of n beyond Precision                                          *)
RECURSIVE Excess(_)
Excess(n) == IF n < Pow2(Precision) THEN 0 ELSE 1 + Excess(n \div 2)

(* The bits of n                                                           *)
RECURSIVE Bits(_)
Bits(n) == IF n = 0 THEN 0 ELSE 1 + Bits(n \div 2)

FZero == [m |-> 0, e |-> 0]

Neg(x) == [x EXCEPT !.m = -x.m]

RECURSIVE Normal(_, _)
Normal(m, e) == IF m < Pow2(Precision - 1) THEN Normal(2 * m, e - 1) ELSE [m |-> m, e |-> e]

(* The float nearest to a number between n * 2^e and (n + 1) * 2^e, n > 0: *)
(* it is n * 2^e itself unless sticky.  Round to nearest, ties to even.    *)
RoundPos(n, e, sticky) ==
    LET k == Excess(n)
        q == n \div Pow2(k)
        r == n % Pow2(k)
        half == IF k = 0 THEN 1 ELSE Pow2(k - 1)
        up == /\ k > 0
              /\ \/ r > half
                 \/ r = half /\ (sticky \/ q % 2 = 1)
    IN  IF k = 0 THEN Normal(n, e)
        ELSE IF ~up THEN [m |-> q, e |-> e + k]
        ELSE IF q + 1 = Pow2(Precision) THEN [m |-> Pow2(Precision - 1), e |-> e + k + 1]
        ELSE [m |-> q + 1, e |-> e + k]

Round(n, e, sticky) ==
    IF n = 0 THEN FZero
    ELSE IF n < 0 THEN Neg(RoundPos(-n, e, sticky))
    ELSE RoundPos(n, e, sticky)

(* x + y.  An operand below an eighth of the other's last place does not   *)
(* change the rounded sum.                                                 *)
FAdd(x, y) ==
    IF x.m = 0 THEN y
    ELSE IF y.m = 0 THEN x
    ELSE IF x.e - y.e > Precision + 2 THEN x
    ELSE IF y.e - x.e > Precision + 2 THEN y
    ELSE LET e == Min(x.e, y.e)
         IN  Round(x.m * Pow2(x.e - e) + y.m * Pow2(y.e - e), e, FALSE)

FSub(x, y) == FAdd(x, Neg(y))

FMul(x, y) == Round(x.m * y.m, x.e + y.e, FALSE)

(* The float nearest to a / b, for integers a and b > 0                    *)
FloatOfRatio(a, b) ==
    IF a = 0 THEN FZero
    ELSE LET s == Precision + 2 + Bits(b)
             n == Abs(a) * Pow2(s)
             r == Round(n \div b, -s, n % b # 0)
         IN  IF a < 0 THEN Neg(r) ELSE r

(* x / n for a count n > 0: a count is a float without rounding            *)
FDivInt(x, n) ==
    LET r == FloatOfRatio(Abs(x.m), n)
        q == [r EXCEPT !.e = @ + x.e]
    IN  IF x.m = 0 THEN FZero ELSE IF x.m < 0 THEN Neg(q) ELSE q

(* x > y                                                                   *)
FGreater(x, y) == FSub(x, y).m > 0

----------------------------------------------------------------------------
(* numpy's sum of a float64 array (np.add.reduce, pairwise summation):     *)
(* fewer than 8 elements are added in order; up to 128 are added into 8    *)
(* running sums that are then added in pairs, and the rest in order; a     *)
(* longer array is split in two halves, the first a multiple of 8 long.    *)
RECURSIVE SumInOrder(_, _)
SumInOrder(acc, a) ==
    IF a = <<>> THEN acc ELSE SumInOrder(FAdd(acc, Head(a)), Tail(a))

RECURSIVE SumLane(_, _, _, _)
SumLane(acc, a, i, full) ==
    IF i > full THEN acc ELSE SumLane(FAdd(acc, a[i]), a, i + 8, full)

RECURSIVE pairwise_sum(_)
pairwise_sum(a) ==
    LET n == Len(a)
    IN  IF n < 8 THEN SumInOrder(FZero, a)
        ELSE IF n <= 128
        THEN LET full == n - (n % 8)
                 r == [j \in 1..8 |-> SumLane(a[j], a, j + 8, full)]
                 res == FAdd(FAdd(FAdd(r[1], r[2]), FAdd(r[3], r[4])),
                             FAdd(FAdd(r[5], r[6]), FAdd(r[7], r[8])))
             IN  SumInOrder(res, SubSeq(a, full + 1, n))
        ELSE LET half == n \div 2
                 n2 == half - (half % 8)
             IN  FAdd(pairwise_sum(SubSeq(a, 1, n2)), pairwise_sum(SubSeq(a, n2 + 1, n)))

(* np.mean(a): the sum divided by the length                               *)
np_mean(a) == FDivInt(pairwise_sum(a), Len(a))

(* The square of np.std(a): the mean of the squares of the differences     *)
(* from the mean.  np.std(a) is its square root, 0 exactly when it is 0.   *)
np_var(a) ==
    LET arrmean == np_mean(a)
        x == [i \in 1..Len(a) |-> FSub(a[i], arrmean)]
        xx == [i \in 1..Len(a) |-> FMul(x[i], x[i])]
    IN  FDivInt(pairwise_sum(xx), Len(a))

WINDOW_SIZE == 300     \* SpikePredictor(window_size=300)

(* float(x) of an amount, a Decimal in units of 0.01                       *)
FloatOfAmount(x) == FloatOfRatio(x, 100)

(* SpikePredictor.add_trade: append to a deque(maxlen=window_size), which  *)
(* drops its oldest element when full                                      *)
add_trade_window(window, amount) == LastN(Append(window, amount), WINDOW_SIZE)

(* The score returned for 0.0.  A score is num / sqrt(sq).                 *)
ZeroScore == [num |-> FZero, sq |-> Round(1, 0, FALSE)]

(* SpikePredictor.get_z_score: 0.0 for fewer than 10 samples and for a     *)
(* standard deviation of 0, else (current_volume_5m - mean) / std          *)
get_z_score(window, current_volume_5m) ==
    IF Len(window) < 10 THEN ZeroScore
    ELSE LET mean == np_mean(window)
             sq == np_var(window)
         IN  IF sq = FZero THEN ZeroScore
             ELSE [num |-> FSub(current_volume_5m, mean), sq |-> sq]

(* z_score > Config.TAKER_VOL_Z_SCORE_THRESHOLD (2.0): the difference is   *)
(* positive and its square exceeds 4 times the variance                    *)
ExceedsThreshold(z) ==
    /\ z.num.m > 0
    /\ FGreater(FMul(z.num, z.num), [z.sq EXCEPT !.e = @ + 2])

VOLATILITY_WINDOW == 50   \* calculate_volatility(trades, window_size=50)

(* float(r) of a stored rate, a Decimal in units of 0.0001                 *)
FloatOfRate(r) == FloatOfRatio(r, 10000)

(* calculate_volatility: 0.0 for fewer than two trades, else np.std of the *)
(* rates of the last 50 trades.  The result is the square root of sq.      *)
calculate_volatility(ts) ==
    IF Len(ts) < 2 THEN [sq |-> FZero]
    ELSE LET recent_trades == LastN(ts, VOLATILITY_WINDOW)
             rates == [i \in 1..Len(recent_trades) |-> FloatOfRate(recent_trades[i][1])]
         IN  [sq |-> np_var(rates)]

DEPTH_LEVELS == 10     \* calculate_depth_skewness(bids, asks, depth_levels=10)

(* sorted(bids.items(), reverse=True)[:depth_levels] and                   *)
(* sorted(asks.items())[:depth_levels]: the rates of the levels taken      *)
TopBids(d, depth_levels) ==
    {r \in DOMAIN d : Cardinality({x \in DOMAIN d : x > r}) < depth_levels}

TopAsks(d, depth_levels) ==
    {r \in DOMAIN d : Cardinality({x \in DOMAIN d : x < r}) < depth_levels}

(* sum(amount for _, amount in levels)                                     *)
RECURSIVE level_vol(_, _)
level_vol(d, R) ==
    IF R = {} THEN 0
    ELSE LET r == CHOOSE x \in R : TRUE IN d[r] + level_vol(d, R \ {r})

(* calculate_depth_skewness: (bid_vol - ask_vol) / (bid_vol + ask_vol),    *)
(* and 0.0 when the two volumes add up to 0                                *)
calculate_depth_skewness(b, a, depth_levels) ==
    LET bid_vol == level_vol(b, TopBids(b, depth_levels))
        ask_vol == level_vol(a, TopAsks(a, depth_levels))
    IN  IF bid_vol + ask_vol = 0 THEN Zero
        ELSE [num |-> bid_vol - ask_vol, den |-> bid_vol + ask_vol]

(* The inputs of the runs.  Capital is a balance, never negative; vwar and *)
(* volatility are in units of 0.000001 and the bias is the sum of the two  *)
(* biases _rebalance_loop adds (5 and 10 percent).                         *)
Capitals == 0..MaxCapital

(* Rates in units of 0.0001, times in minutes; 2304 minutes put eta at the *)
(* threshold.                                                              *)
Rates == 0..MaxRate

MarketRates == -1..MaxRate

WaitTimes == {-10, 0, 60, 2304}

ExecTimes == {0, 1, 10}

(* Stored trades (rate, amount, mts) of a VWAR input                       *)
VwarTrades == {<<r, a, 0>> : r \in 1..MaxRate, a \in {-2, 0, 1}}

VwarInputs == SeqsUpTo(VwarTrades, MaxTradeSet)

(* A run of the pure computations applies one of them to one input: they   *)
(* read and keep no state.                                                 *)
GenerateOrders ==
    /\ call.fn = "none"
    /\ \E capital \in Capitals, vwar \in {0, 100}, volatility \in {0, 10},
          signal_bias \in {0, 5, 10, 15} :
          call' = [fn |-> "generate_orders",
                   args |-> <<capital, vwar, volatility, signal_bias>>,
                   out |-> generate_orders(capital, vwar, volatility, signal_bias)]
    /\ UNCHANGED beside_pure

RebalanceDecision ==
    /\ call.fn = "none"
    /\ \E r_target \in Rates, r_current \in Rates, r_market \in MarketRates,
          t_wait \in WaitTimes, t_exec \in ExecTimes :
          LET eta == calculate_efficiency_threshold(r_target, r_current,
                                                    r_market, t_wait, t_exec)
          IN  call' = [fn |-> "should_rebalance",
                       args |-> <<r_target, r_current, r_market, t_wait, t_exec>>,
                       out |-> [eta |-> eta, decision |-> should_rebalance(eta)]]
    /\ UNCHANGED beside_pure

Vwar ==
    /\ call.fn = "none"
    /\ \E ts \in VwarInputs :
          call' = [fn |-> "calculate_vwar", args |-> ts, out |-> calculate_vwar(ts)]
    /\ UNCHANGED beside_pure

MaxSamples == 302    \* samples given to the spike predictor in a run
MaxFree == 2         \* samples of a run that are chosen freely

(* Taker volumes in units of 0.01                                          *)
SpikeAmounts == {1, 2, 3}

(* The amounts the next sample is drawn from: any after the first MaxFree  *)
(* samples, the amount of the latest sample from then on.                  *)
NextSamples ==
    IF Len(samples) < MaxFree THEN {FloatOfAmount(v) : v \in SpikeAmounts}
    ELSE {samples[Len(samples)]}

(* SpikePredictor.add_trade(amount)                                        *)
AddTrade ==
    /\ Len(samples) < MaxSamples
    /\ \E amount \in NextSamples :
          /\ taker_volumes' = add_trade_window(taker_volumes, amount)
          /\ samples' = Append(samples, amount)
    /\ UNCHANGED <<running, task, perp_funding_rate, is_aggressive_mode, cycle>>
    /\ UNCHANGED <<ingest_vars, limiter_vars, call, account_vars, rest>>

NextSpike == AddTrade

SpecSpike == Init /\ [][NextSpike]_vars

MaxSame == 7         \* longest input of trades that all have one rate

(* Stored trades of one rate each, with amounts that differ                *)
SameRateInputs ==
    {[i \in 1..n |-> <<r, IF i % 2 = 0 THEN -2 ELSE i, 0>>] :
        r \in 1..MaxRate, n \in 2..MaxSame}

Volatility ==
    /\ call.fn = "none"
    /\ \E ts \in VwarInputs \cup SameRateInputs :
          call' = [fn |-> "calculate_volatility", args |-> ts,
                   out |-> calculate_volatility(ts)]
    /\ UNCHANGED beside_pure

NextPure == GenerateOrders \/ RebalanceDecision \/ Vwar \/ Volatility

SpecPure == Init /\ [][NextPure]_vars

(* The layers of a plan and their amounts, in order.                       *)
LayersOf(plan) == [i \in 1..Len(plan) |-> plan[i].layer]

AmountsOf(plan) == [i \in 1..Len(plan) |-> plan[i].amount]

RECURSIVE SumSeq(_)
SumSeq(s) == IF s = <<>> THEN 0 ELSE Head(s) + SumSeq(Tail(s))

(* The plan generate_orders returned, and the capital it was given.        *)
Planned == call.fn = "generate_orders"

(* C16: a layer is in the plan if and only if its share of the capital     *)
(* (40, 30 and 30 percent) is at least the minimum order size of 150; the  *)
(* layers appear in the order Base, Alpha, Spike with their share as       *)
(* amount, and capital 1000 gives the amounts 400, 300, 300.               *)
C16_LayersMeetingMinimum ==
    Planned =>
        LET capital == call.args[1]
            Share(l) == CASE l = "BASE" -> capital * 40
                          [] l = "ALPHA" -> capital * 30
                          [] l = "SPIKE" -> capital * 30
            Included(l) == Share(l) >= 150 * 100
            expected == SelectSeq(<<"BASE", "ALPHA", "SPIKE">>, Included)
        IN  /\ LayersOf(call.out) = expected
            /\ \A i \in 1..Len(call.out) : call.out[i].amount = Share(call.out[i].layer)
            /\ capital = 1000 => AmountsOf(call.out) = <<40000, 30000, 30000>>

(* The plan of capital 1000 has the three layers.                          *)
C16_Witness == Planned /\ call.args[1] = 1000 /\ Len(call.out) = 3

(* C17 as stated: with capital 300 the plan contains only the Base layer.  *)
C17_Capital300OnlyBase ==
    (Planned /\ call.args[1] = 300) => LayersOf(call.out) = <<"BASE">>

(* C17 amended: with capital 300 the plan is empty (120, 90 and 90 are all *)
(* below the minimum of 150); the plan contains only the Base layer        *)
(* exactly for a capital from 375 up to, not including, 500.               *)
C17_Capital300EmptyPlan ==
    Planned =>
        /\ call.args[1] = 300 => call.out = <<>>
        /\ LayersOf(call.out) = <<"BASE">> <=>
               (375 <= call.args[1] /\ call.args[1] < 500)

(* The plan of capital 300.                                                *)
C17_Witness == Planned /\ call.args[1] = 300 /\ Len(call.out) = 0

C19_RebalanceDecision ==
    call.fn = "should_rebalance" =>
        LET rTarget == call.args[1]
            rCurrent == call.args[2]
            rMarket == call.args[3]
            time == call.args[4] + call.args[5]
            n == (rTarget - rCurrent) * 2880
            d == rMarket * time
            above == (d > 0 /\ 4 * n > 5 * d) \/ (d < 0 /\ 4 * n < 5 * d)
        IN  /\ call.out.decision <=> (rMarket # 0 /\ time # 0 /\ above)
            /\ (rMarket = 0 \/ time = 0) =>
                   (call.out.eta.num = 0 /\ ~call.out.decision)

(* The decision to rebalance from 0.0001 to 0.0002 at a market rate of     *)
(* 0.0001 with 60 + 10 minutes.                                            *)
C19_Witness ==
    /\ call.fn = "should_rebalance"
    /\ call.args = <<2, 1, 1, 60, 10>>
    /\ call.out.decision

(* The rates of a trade set.                                               *)
RatesIn(ts) == {ts[i][1] : i \in 1..Len(ts)}

MinOf(S) == CHOOSE x \in S : \A y \in S : x <= y

MaxOf(S) == CHOOSE x \in S : \A y \in S : x >= y

(* C20: for a non-empty trade set with a total volume other than 0 the     *)
(* VWAR lies between the smallest and the largest rate of the set,         *)
(* inclusive; the VWAR of an empty set and of a set of total volume 0 is   *)
(* 0.                                                                      *)
C20_VwarBetweenExtremes ==
    call.fn = "calculate_vwar" =>
        LET ts == call.args
            volume == SumSeq([i \in 1..Len(ts) |-> Abs(ts[i][2])])
        IN  IF ts = <<>> \/ volume = 0
            THEN call.out.num = 0
            ELSE /\ call.out.den > 0
                 /\ MinOf(RatesIn(ts)) * call.out.den <= call.out.num
                 /\ call.out.num <= MaxOf(RatesIn(ts)) * call.out.den

(* A VWAR strictly between two rates, over buys and sells.                 *)
C20_Witness ==
    /\ call.fn = "calculate_vwar"
    /\ Len(call.args) >= 2
    /\ \E i, j \in 1..Len(call.args) : call.args[i][2] < 0 /\ call.args[j][2] > 0
    /\ MinOf(RatesIn(call.args)) * call.out.den < call.out.num
    /\ call.out.num < MaxOf(RatesIn(call.args)) * call.out.den

----------------------------------------------------------------------------
(* The periodic tasks of the engine (main.py).  Each task is a loop        *)
(* `while self.running:`; a task is at "test" when it is about to test the *)
(* flag, at "done" when its loop has ended, and in between at one of its   *)
(* awaits.  Between two awaits a task runs without interruption.  A sleep  *)
(* is a position the task leaves when the sleep is over.                   *)

MaxCycleSamples == 3   \* samples the rebalance loop adds in a run

(* Funding rates in units of 0.0001 (the threshold is 5)                   *)
FundingRates == {0, 6}

At(t, position) == [task EXCEPT ![t] = position]

FAbs(x) == [x EXCEPT !.m = Abs(x.m)]

(* shutdown(): self.running = False; external_signals.close() has no       *)
(* session to close                                                        *)
Shutdown ==
    /\ running
    /\ running' = FALSE
    /\ UNCHANGED <<task, perp_funding_rate, is_aggressive_mode, taker_volumes,
                   cycle, samples>>
    /\ UNCHANGED beside_engine

SignalsTest_IgnoresFlag ==
    /\ task["signals"] = "test"
    /\ task' = At("signals", "fetch")
    /\ UNCHANGED <<running, perp_funding_rate, is_aggressive_mode, taker_volumes,
                   cycle, samples>>
    /\ UNCHANGED beside_engine

(* _update_signals: the test of `while self.running`, and the call of      *)
(* get_perp_funding_rate() up to its first await                           *)
SignalsTest ==
    /\ task["signals"] = "test"
    /\ task' = At("signals", IF running THEN "fetch" ELSE "done")
    /\ UNCHANGED <<running, perp_funding_rate, is_aggressive_mode, taker_volumes,
                   cycle, samples>>
    /\ UNCHANGED beside_engine

(* get_perp_funding_rate() returns (a rate, or its fallback of 0 after a   *)
(* failure or a timeout of 10 s); the rate is stored and the task sleeps   *)
SignalsFetched(rate) ==
    /\ task["signals"] = "fetch"
    /\ perp_funding_rate' = rate
    /\ task' = At("signals", "sleep")
    /\ UNCHANGED <<running, is_aggressive_mode, taker_volumes, cycle, samples>>
    /\ UNCHANGED beside_engine

(* asyncio.sleep(60) is over                                               *)
SignalsWake ==
    /\ task["signals"] = "sleep"
    /\ task' = At("signals", "test")
    /\ UNCHANGED <<running, perp_funding_rate, is_aggressive_mode, taker_volumes,
                   cycle, samples>>
    /\ UNCHANGED beside_engine

(* _rebalance_loop: one iteration from the test of `while self.running` to *)
(* its sleep.  It leaves the loop when the flag is down, skips its work    *)
(* (sleep of 1 s) when ws_client.connected is False, and otherwise         *)
(* computes: with trades in the history it gives abs of the amount of the  *)
(* latest trade to the spike predictor and sets is_aggressive_mode from    *)
(* the z-score; the plan it generates is logged and kept nowhere.          *)
RebalanceCycle ==
    /\ task["rebalance"] = "test"
    /\ Len(samples) < MaxCycleSamples
    /\ IF ~running
       THEN /\ task' = At("rebalance", "done")
            /\ cycle' = [op |-> "exit", open |-> ws # "none", sampled |-> FALSE]
            /\ UNCHANGED <<is_aggressive_mode, taker_volumes, samples>>
       ELSE IF ~connected
       THEN /\ task' = At("rebalance", "sleep")
            /\ cycle' = [op |-> "skip", open |-> ws # "none", sampled |-> FALSE]
            /\ UNCHANGED <<is_aggressive_mode, taker_volumes, samples>>
       ELSE /\ task' = At("rebalance", "sleep")
            /\ cycle' = [op |-> "compute", open |-> ws # "none",
                         sampled |-> trades # <<>>]
            /\ IF trades # <<>>
               THEN LET last_trade_vol == FloatOfAmount(trades[Len(trades)][2])
                        window == add_trade_window(taker_volumes, FAbs(last_trade_vol))
                        z_score == get_z_score(window, FAbs(last_trade_vol))
                    IN  /\ taker_volumes' = window
                        /\ samples' = Append(samples, FAbs(last_trade_vol))
                        /\ is_aggressive_mode' = ExceedsThreshold(z_score)
               ELSE UNCHANGED <<is_aggressive_mode, taker_volumes, samples>>
    /\ UNCHANGED <<running, perp_funding_rate>>
    /\ UNCHANGED beside_engine

(* asyncio.sleep(1) or asyncio.sleep(10) is over                           *)
RebalanceWake ==
    /\ task["rebalance"] = "sleep"
    /\ task' = At("rebalance", "test")
    /\ UNCHANGED <<running, perp_funding_rate, is_aggressive_mode, taker_volumes,
                   cycle, samples>>
    /\ UNCHANGED beside_engine

(* _daily_status_notification: the test of `while self.running` and the    *)
(* computation of the next 13:00, which sleeps until then ("wait"), or     *)
(* raises on the last day of a month and sleeps an hour ("retry")          *)
ReportTest ==
    /\ task["report"] = "test"
    /\ \E position \in IF running THEN {"wait", "retry"} ELSE {"done"} :
          task' = At("report", position)
    /\ UNCHANGED <<running, perp_funding_rate, is_aggressive_mode, taker_volumes,
                   cycle, samples>>
    /\ UNCHANGED beside_engine

(* asyncio.sleep(wait_seconds) is over: _send_status_report() is awaited   *)
ReportDue ==
    /\ task["report"] = "wait"
    /\ task' = At("report", "send")
    /\ UNCHANGED <<running, perp_funding_rate, is_aggressive_mode, taker_volumes,
                   cycle, samples>>
    /\ UNCHANGED beside_engine

(* _send_status_report() returns (it catches its own exceptions): the task *)
(* sleeps 60 s                                                             *)
ReportSent ==
    /\ task["report"] = "send"
    /\ task' = At("report", "sleep")
    /\ UNCHANGED <<running, perp_funding_rate, is_aggressive_mode, taker_volumes,
                   cycle, samples>>
    /\ UNCHANGED beside_engine

(* asyncio.sleep(60) or asyncio.sleep(3600) is over                        *)
ReportWake ==
    /\ task["report"] \in {"sleep", "retry"}
    /\ task' = At("report", "test")
    /\ UNCHANGED <<running, perp_funding_rate, is_aggressive_mode, taker_volumes,
                   cycle, samples>>
    /\ UNCHANGED beside_engine

(* The runs of the rebalance loop beside ingestion: one trades channel,    *)
(* at most MaxProtoTrades trades, the clock and the reconnects.            *)
CycleFrames(n) ==
    {Frame("subscribed", 2, "trades", "", <<>>)}
    \cup (IF n < MaxProtoTrades THEN {Frame("tag", 2, "", "te", <<Trade(n + 1)>>)} ELSE {})

NextCycle ==
    \/ ConnectOK
    \/ ConnectError
    \/ \E f \in CycleFrames(Len(log)) : Receive(f)
    \/ IterEnd
    \/ IterError
    \/ BackoffWake
    \/ Tick
    \/ RebalanceCycle
    \/ RebalanceWake

SpecCycle == Init /\ [][NextCycle]_vars

(* The runs of the three tasks and shutdown(), beside a connection that    *)
(* opens and closes.                                                       *)
NextTasks ==
    \/ Shutdown
    \/ SignalsTest
    \/ \E rate \in FundingRates : SignalsFetched(rate)
    \/ SignalsWake
    \/ RebalanceCycle
    \/ RebalanceWake
    \/ ReportTest
    \/ ReportDue
    \/ ReportSent
    \/ ReportWake
    \/ ConnectOK
    \/ IterEnd

(* The event loop runs every task that is ready, every sleep ends and      *)
(* every awaited request returns or times out.                             *)
SpecTasks ==
    /\ Init /\ [][NextTasks]_vars
    /\ WF_vars(SignalsTest)
    /\ WF_vars(\E rate \in FundingRates : SignalsFetched(rate))
    /\ WF_vars(SignalsWake)
    /\ WF_vars(RebalanceCycle)
    /\ WF_vars(RebalanceWake)
    /\ WF_vars(ReportTest)
    /\ WF_vars(ReportDue)
    /\ WF_vars(ReportSent)
    /\ WF_vars(ReportWake)

----------------------------------------------------------------------------
(* Depth skew of the order book *)

(* The depths the skew is taken at: the best level alone, and the default. *)
Depths == {1, DEPTH_LEVELS}

(* C21: in every reachable state of the book every stored amount, bid or   *)
(* ask, is at least 0, and the depth skew of the book is a number between  *)
(* -1 and 1 that is 0 when the bid volume and the ask volume are both 0.   *)
C21_AmountsAndSkewInRange ==
    /\ \A r \in DOMAIN bids : bids[r] >= 0
    /\ \A r \in DOMAIN asks : asks[r] >= 0
    /\ \A k \in Depths :
          LET skew == calculate_depth_skewness(bids, asks, k)
          IN  /\ skew.den > 0
              /\ -skew.den <= skew.num /\ skew.num <= skew.den
              /\ (level_vol(bids, TopBids(bids, k)) = 0
                    /\ level_vol(asks, TopAsks(asks, k)) = 0) => skew.num = 0

(* A book update left two bid levels and an ask level, and the skew of the *)
(* best levels differs from the skew of the whole book.                    *)
C21_Witness ==
    /\ Applied("flat", "book")
    /\ Cardinality(DOMAIN bids) = 2
    /\ asks # EmptyDict
    /\ LET one == calculate_depth_skewness(bids, asks, 1)
           all == calculate_depth_skewness(bids, asks, DEPTH_LEVELS)
       IN  /\ one.num # 0
           /\ one.num * all.den # all.num * one.den

----------------------------------------------------------------------------
(* Volatility *)

(* The trades of an input all have the rate of the first.                  *)
SameRate(ts) == \A i \in 1..Len(ts) : ts[i][1] = ts[1][1]

(* C24: calculate_volatility returns 0 for fewer than two trades, and      *)
(* exactly 0 for two or more trades that all have the same rate, whatever  *)
(* their amounts.                                                          *)
C24_VolatilityZero ==
    call.fn = "calculate_volatility" =>
        /\ Len(call.args) < 2 => call.out.sq = FZero
        /\ (Len(call.args) >= 2 /\ SameRate(call.args)) => call.out.sq = FZero

----------------------------------------------------------------------------
(* Spike predictor *)

AllEqual(window) == \A i \in 1..Len(window) : window[i] = window[1]

(* C22: get_z_score returns 0 for any input while the window holds fewer   *)
(* than 10 samples, and 0 when all samples of the window are equal; the    *)
(* window never holds more than 300 samples and holds the most recent      *)
(* ones in the order they were added.                                      *)
C22_ZScoreAndWindow ==
    /\ \A v \in SpikeAmounts :
          LET z == get_z_score(taker_volumes, FloatOfAmount(v))
          IN  /\ Len(taker_volumes) < 10 => z = ZeroScore
              /\ AllEqual(taker_volumes) => z = ZeroScore
    /\ Len(taker_volumes) <= WINDOW_SIZE
    /\ taker_volumes = LastN(samples, WINDOW_SIZE)

----------------------------------------------------------------------------
(* Writers of the shared state *)

AccountOps == {"update_balance", "add_order", "remove_order"}

(* C23: every field of the shared state has one writing path.  A balance   *)
(* or pending-order operation writes only the balance and order fields:    *)
(* it leaves the book, the trade history and the last-update timestamp as  *)
(* they are; every other step leaves the balance and order fields as they  *)
(* are.                                                                    *)
C23_OneWritingPath ==
    [][/\ last'.op \in AccountOps =>
            UNCHANGED <<bids, asks, trades, last_update_age>>
       /\ last'.op \notin AccountOps => UNCHANGED account_vars]_vars

----------------------------------------------------------------------------
(* Authenticated REST calls *)

NextRest ==
    \/ \E p \in Callers : PostCall(p) \/ PostLock(p) \/ PostWake(p) \/ PostSend(p)
    \/ LimiterTick

SpecRest == Init /\ [][NextRest]_vars

(* The calls of acquire() that have returned: those that entered the       *)
(* critical section, less the one sleeping in it.                          *)
AcquiresReturned == rl.calls - (IF holder # 0 THEN 1 ELSE 0)

(* The calls of _post whose acquire() has returned and whose request is    *)
(* not sent yet.                                                           *)
ReadyToSend == {p \in Callers : rest.phase[p] = "send"}

(* C25: a request is sent only after the acquire() of its call has         *)
(* returned: the requests sent, together with the calls that may send      *)
(* next, never exceed the calls of acquire() that have returned, and a     *)
(* step that sends a request is taken by a call whose acquire() returned.  *)
C25_SentAfterAcquire ==
    /\ rest.sent + Cardinality(ReadyToSend) <= AcquiresReturned
    /\ rest.sent <= AcquiresReturned
    /\ \A p \in Callers : rest.phase[p] = "send" => acq[p] = "idle"

(* Three requests were sent, the third after its acquire() had slept.      *)
C25_Witness ==
    /\ rest.sent = 3
    /\ rl.grant.waited
    /\ rl.grant.n = 3

----------------------------------------------------------------------------
(* The watchdog and the connection it closes *)

(* C27: the watchdog closes a connection only if that connection has had   *)
(* no frame for longer than the timeout; a connection established after a  *)
(* long outage is not closed before a full timeout has passed on it        *)
(* without frames.                                                         *)
C27_ClosesOnlySilentConnection ==
    last.op = "hb_close" => quiet > WS_TIMEOUT_SECONDS

----------------------------------------------------------------------------
(* Trades recorded once *)

(* C29: each trade, identified by its trade id, is recorded at most once   *)
(* in the trade history, across the execution frame and the update frame   *)
(* of the trade and across the snapshot received after a reconnect.        *)
C29_TradeRecordedOnce ==
    \A i, j \in 1..Len(trades) : i # j => trades[i][3] # trades[j][3]

----------------------------------------------------------------------------
(* The engine: shutdown, the connected flag, the samples of the predictor *)

(* The positions of a task inside an iteration of its loop.                *)
InIteration == {"fetch", "wait", "retry", "send", "sleep"}

C28_ComputesOnlyWhenOpen ==
    /\ connected => ws # "none"
    /\ cycle.op = "compute" => cycle.open

(* C30: the samples ever added to the predictor's window never exceed the  *)
(* trades ever appended to the trade history.                              *)
C30_OneSamplePerTrade == Len(samples) <= Len(log)

----------------------------------------------------------------------------
(* Pending orders *)

(* C31: the pending-order set holds at most one order per order id: every  *)
(* pending order is stored under its own id.  add_order(order) leaves      *)
(* `order` under order.id and every order of another id as it was, so an   *)
(* id that was already pending has its order replaced and the number of    *)
(* pending orders is the same; it raises nothing.  remove_order of an id   *)
(* that is not pending changes no field of the state and raises nothing;   *)
(* remove_order of a pending id removes that order alone.                  *)
C31_OneOrderPerId ==
    /\ [](\A k \in DOMAIN pending_orders : pending_orders[k].id = k)
    /\ [][\A order \in Orders : AddOrder(order) =>
            /\ order.id \in DOMAIN pending_orders'
            /\ pending_orders'[order.id] = order
            /\ \A k \in DOMAIN pending_orders' \ {order.id} :
                  k \in DOMAIN pending_orders /\ pending_orders'[k] = pending_orders[k]
            /\ DOMAIN pending_orders \subseteq DOMAIN pending_orders'
            /\ order.id \in DOMAIN pending_orders =>
                  Cardinality(DOMAIN pending_orders')
                      = Cardinality(DOMAIN pending_orders)
            /\ ~last'.raised]_vars
    /\ [][\A order_id \in RemovedIds : RemoveOrder(order_id) =>
            /\ ~last'.raised
            /\ order_id \notin DOMAIN pending_orders =>
                  UNCHANGED <<pending_orders, available_balance, lent_balance,
                              bids, asks, trades, last_update_age, connected>>
            /\ order_id \in DOMAIN pending_orders =>
                  /\ DOMAIN pending_orders' = DOMAIN pending_orders \ {order_id}
                  /\ \A k \in DOMAIN pending_orders' :
                        pending_orders'[k] = pending_orders[k]]_vars

(* remove_order has just been called with an id that is not pending while  *)
(* every order id has a pending order, one of them added with the larger   *)
(* amount and one with the smaller; nothing was raised.                    *)
C31_Witness ==
    /\ last.op = "remove_order"
    /\ ~last.raised
    /\ DOMAIN pending_orders = OrderIds
    /\ \E j, k \in OrderIds :
          pending_orders[j].amount = 150 /\ pending_orders[k].amount = 300

====
